---- MODULE Spec2Model ----
(***************************************************************************)
(* Model of the http_router crate (src/lib.rs): the global REGEXES cache,  *)
(* __http_router_create_regex, and the closure produced by router!.        *)
(* Strings are sequences of one-character strings.                         *)
(***************************************************************************)
EXTENDS Integers, Sequences, FiniteSets, TLC

\* ------------------------------------------------------------------ bounds
MaxThreads == 2
MaxCalls == 2

\* ------------------------------------------------------- program constants
MaxParams == 7

\* --------------------------------------------------------------- alphabet
Digits == {"0", "1", "2", "3", "4", "5", "6", "7", "8", "9"}
Letters == {"u", "t", "d", "x"}
\* \w of the regex crate: letters, digits and underscore
WordChars == Letters \cup Digits \cup {"_"}

DigitVal(c) ==
    CASE c = "0" -> 0 [] c = "1" -> 1 [] c = "2" -> 2 [] c = "3" -> 3
      [] c = "4" -> 4 [] c = "5" -> 5 [] c = "6" -> 6 [] c = "7" -> 7
      [] c = "8" -> 8 [] c = "9" -> 9

\* Method: the nine variants the @one_route arms translate tokens into
Methods == {"GET", "POST", "PUT", "PATCH", "DELETE", "OPTIONS", "HEAD", "TRACE", "CONNECT"}

\* ------------------------------------------------------ segments, routes
Lit(text) == [kind |-> "lit", text |-> text, name |-> "", ty |-> ""]
Param(name, ty) == [kind |-> "param", text |-> <<>>, name |-> name, ty |-> ty]
Route(m, segs, h) == [method |-> m, segs |-> segs, handler |-> h]

\* stringify!($path_segment): an identifier prints as itself, a brace group
\* prints with its opening brace first
Stringify(seg) ==
    IF seg.kind = "param"
    THEN <<"{">> \o <<seg.name, ":", seg.ty, "}">>
    ELSE seg.text

StartsWithBrace(str) == Len(str) > 0 /\ str[1] = "{"

\* r#"([\w-]+)"#
Wildcard == <<"(", "[", "\\", "w", "-", "]", "+", ")">>

\* the body of the $( ... )* repetition that appends one segment to s
PushSegment(s, seg) ==
    LET path_segment == Stringify(seg)
    IN  IF StartsWithBrace(path_segment)
        THEN (s \o <<"/">>) \o Wildcard
        ELSE (s \o <<"/">>) \o path_segment

RECURSIVE PushSegments(_, _, _)
PushSegments(s, segs, i) ==
    IF i > Len(segs) THEN s
    ELSE PushSegments(PushSegment(s, segs[i]), segs, i + 1)

\* BuildPattern without the closing anchor
BuildPatternNoEnd(segs) ==
    LET s1 == PushSegments(<<"^">>, segs, 1)
    IN  IF Len(s1) = 1 THEN s1 \o <<"/">> ELSE s1

\* let mut s = "^" ... s.push('$')
BuildPattern(segs) ==
    LET s1 == PushSegments(<<"^">>, segs, 1)
        s2 == IF Len(s1) = 1 THEN s1 \o <<"/">> ELSE s1
    IN  s2 \o <<"$">>

\* ------------------------------------------------------------ regex crate
Atom(kind, c) == [kind |-> kind, c |-> c, set |-> <<>>]
ClassAtom(members) == [kind |-> "class", c |-> "", set |-> members]

\* what Regex::new returns for a string that is not a regular expression
RegexError == <<Atom("error", "")>>

IsWildcardAt(s, i) ==
    /\ i + Len(Wildcard) - 1 <= Len(s)
    /\ \A k \in 1..Len(Wildcard) : s[i + k - 1] = Wildcard[k]

\* index of the first "]" at or after j, 0 when there is none
RECURSIVE ClassEnd(_, _)
ClassEnd(s, j) ==
    IF j > Len(s) THEN 0
    ELSE IF s[j] = "]" THEN j
    ELSE ClassEnd(s, j + 1)

\* the "]" closing the class opened at s[i]; a "]" right after the "[" is a
\* member of the class, not its end
ClassClose(s, i) ==
    IF i < Len(s) /\ s[i + 1] = "]" THEN ClassEnd(s, i + 2) ELSE ClassEnd(s, i + 1)

\* regex::Regex::new(s) on the strings the macro builds from segments: "^"
\* and "$" are anchors, ([\w-]+) is a capturing class repetition, "[" opens a
\* character class and is an error when the class is never closed, any
\* character of an identifier matches itself
RECURSIVE ParseRegex(_, _)
ParseRegex(s, i) ==
    IF i > Len(s) THEN <<>>
    ELSE IF s[i] = "^" THEN <<Atom("start", "")>> \o ParseRegex(s, i + 1)
    ELSE IF s[i] = "$" THEN <<Atom("end", "")>> \o ParseRegex(s, i + 1)
    ELSE IF IsWildcardAt(s, i)
         THEN <<Atom("capture", "")>> \o ParseRegex(s, i + Len(Wildcard))
    ELSE IF s[i] = "["
         THEN IF ClassClose(s, i) = 0
              THEN RegexError
              ELSE <<ClassAtom(SubSeq(s, i + 1, ClassClose(s, i) - 1))>>
                       \o ParseRegex(s, ClassClose(s, i) + 1)
    ELSE <<Atom("char", s[i])>> \o ParseRegex(s, i + 1)

\* Ok(regex) or Err
RegexNew(s) ==
    LET atoms == ParseRegex(s, 1)
    IN  IF \E n \in 1..Len(atoms) : atoms[n].kind = "error"
        THEN RegexError
        ELSE atoms

InClass(c) == c \in WordChars \/ c = "-"

\* length of the longest run of [\w-] characters of text starting at j
RECURSIVE RunLen(_, _)
RunLen(text, j) ==
    IF j <= Len(text) /\ InClass(text[j]) THEN 1 + RunLen(text, j + 1) ELSE 0

NoMatch == [ok |-> FALSE, caps |-> <<>>]

\* backtracking match of atoms re[i..] against text[j..]; a repetition is
\* greedy: the longest run is tried first
RECURSIVE MatchAt(_, _, _, _)
RECURSIVE TryRun(_, _, _, _, _)
MatchAt(re, i, text, j) ==
    IF i > Len(re) THEN [ok |-> TRUE, caps |-> <<>>]
    ELSE CASE re[i].kind = "start" ->
                IF j = 1 THEN MatchAt(re, i + 1, text, j) ELSE NoMatch
           [] re[i].kind = "end" ->
                IF j = Len(text) + 1 THEN MatchAt(re, i + 1, text, j) ELSE NoMatch
           [] re[i].kind = "char" ->
                IF j <= Len(text) /\ text[j] = re[i].c
                THEN MatchAt(re, i + 1, text, j + 1) ELSE NoMatch
           [] re[i].kind = "capture" ->
                TryRun(re, i, text, j, RunLen(text, j))
           [] re[i].kind = "class" ->
                IF j <= Len(text) /\ \E n \in 1..Len(re[i].set) : re[i].set[n] = text[j]
                THEN MatchAt(re, i + 1, text, j + 1) ELSE NoMatch
           [] OTHER -> NoMatch

TryRun(re, i, text, j, n) ==
    IF n < 1 THEN NoMatch
    ELSE LET rest == MatchAt(re, i + 1, text, j + n)
         IN  IF rest.ok
             THEN [ok |-> TRUE, caps |-> <<SubSeq(text, j, j + n - 1)>> \o rest.caps]
             ELSE TryRun(re, i, text, j, n - 1)

\* re.captures(path): the leftmost match, searched from every start offset
RECURSIVE SearchFrom(_, _, _)
SearchFrom(re, text, j) ==
    IF j > Len(text) + 1 THEN NoMatch
    ELSE LET m == MatchAt(re, 1, text, j)
         IN  IF m.ok THEN m ELSE SearchFrom(re, text, j + 1)

Captures(re, text) == SearchFrom(re, text, 1)

\* ------------------------------------------------------------ str::parse
\* A parsed integer is held as its sign and its decimal numeral without
\* leading zeros.
ParseErr == [ok |-> FALSE, ty |-> "", neg |-> FALSE, num |-> <<>>, str |-> <<>>]
NumVal(ty, neg, num) == [ok |-> TRUE, ty |-> ty, neg |-> neg, num |-> num, str |-> <<>>]
StrVal(str) == [ok |-> TRUE, ty |-> "String", neg |-> FALSE, num |-> <<>>, str |-> str]

\* u32::MAX, i32::MAX and the magnitude of i32::MIN
U32Max == <<"4", "2", "9", "4", "9", "6", "7", "2", "9", "5">>
I32Max == <<"2", "1", "4", "7", "4", "8", "3", "6", "4", "7">>
I32MinAbs == <<"2", "1", "4", "7", "4", "8", "3", "6", "4", "8">>

AllDigits(str) == \A i \in 1..Len(str) : str[i] \in Digits

RECURSIVE StripZeros(_)
StripZeros(str) ==
    IF Len(str) > 1 /\ str[1] = "0" THEN StripZeros(Tail(str)) ELSE str

\* a > b for numerals without leading zeros
RECURSIVE DigitsGreater(_, _, _)
DigitsGreater(a, b, i) ==
    IF i > Len(a) THEN FALSE
    ELSE IF DigitVal(a[i]) # DigitVal(b[i]) THEN DigitVal(a[i]) > DigitVal(b[i])
    ELSE DigitsGreater(a, b, i + 1)

Exceeds(a, max) ==
    \/ Len(a) > Len(max)
    \/ Len(a) = Len(max) /\ DigitsGreater(a, max, 1)

\* <u32 as FromStr>::from_str: an optional "+", then decimal digits, Err on
\* an empty string, a lone sign, a non-digit or a value above u32::MAX
ParseU32(str) ==
    LET body == IF Len(str) > 1 /\ str[1] = "+" THEN Tail(str) ELSE str
        num == StripZeros(body)
    IN  IF Len(body) = 0 \/ ~AllDigits(body) \/ Exceeds(num, U32Max)
        THEN ParseErr
        ELSE NumVal("u32", FALSE, num)

\* <i32 as FromStr>::from_str: an optional "+" or "-", then decimal digits
ParseI32(str) ==
    LET neg == Len(str) > 1 /\ str[1] = "-"
        signed == Len(str) > 1 /\ str[1] \in {"-", "+"}
        body == IF signed THEN Tail(str) ELSE str
        num == StripZeros(body)
    IN  IF \/ Len(body) = 0
           \/ ~AllDigits(body)
           \/ Exceeds(num, IF neg THEN I32MinAbs ELSE I32Max)
        THEN ParseErr
        ELSE NumVal("i32", neg /\ num # <<"0">>, num)

\* $value.parse::<$ty>()
StrParse(value, ty) ==
    CASE ty = "u32" -> ParseU32(value)
      [] ty = "i32" -> ParseI32(value)
      [] ty = "String" -> StrVal(value)

\* --------------------------------------------------------- @call arms
\* indices of the brace-group segments, left to right
RECURSIVE ParamIdx(_, _)
ParamIdx(segs, i) ==
    IF i > Len(segs) THEN <<>>
    ELSE IF segs[i].kind = "param" THEN <<i>> \o ParamIdx(segs, i + 1)
    ELSE ParamIdx(segs, i + 1)

DeclaredTypes(segs) ==
    LET ps == ParamIdx(segs, 1) IN [n \in 1..Len(ps) |-> segs[ps[n]].ty]

\* the {$id : $ty : $idx} list the matching @call arm hands to @call_pure:
\* arms for 1..6 params pair the n-th type with index n-1; the 7 params arm
\* ends with {$id6 : $ty6 : 6}
CallSlots(segs) ==
    LET tys == DeclaredTypes(segs)
        k == Len(tys)
    IN  [n \in 1..k |->
            IF k = MaxParams /\ n = MaxParams
            THEN [ty |-> tys[6], idx |-> 6]
            ELSE [ty |-> tys[n], idx |-> n - 1]]

None == [some |-> FALSE, entry |-> 0, handler |-> "", args |-> <<>>]
Some(entry, handler, args) ==
    [some |-> TRUE, entry |-> entry, handler |-> handler, args |-> args]

\* @call_pure with @parse_type: the arguments are parsed left to right, the
\* first Err returns None from the closure, otherwise the handler is called
CallPure(entry, handler, params, slots) ==
    LET parsed == [n \in 1..Len(slots) |->
                      StrParse(params[slots[n].idx + 1], slots[n].ty)]
    IN  IF \E n \in 1..Len(slots) : ~parsed[n].ok
        THEN None
        ELSE Some(entry, handler, parsed)

\* ------------------------------------------------------------ HashMap
EmptyMap == [k \in {} |-> <<>>]

NoRegex == [some |-> FALSE, value |-> <<>>]

\* MapGet that answers a missing key with an entry stored under another key
MapGetAnyKey(map, key) ==
    IF key \in DOMAIN map THEN [some |-> TRUE, value |-> map[key]]
    ELSE IF DOMAIN map # {}
         THEN [some |-> TRUE, value |-> map[CHOOSE k \in DOMAIN map : TRUE]]
         ELSE NoRegex

\* regexes.get(s).cloned()
MapGet(map, key) ==
    IF key \in DOMAIN map THEN [some |-> TRUE, value |-> map[key]] ELSE NoRegex

\* MapInsert that drops the entries of the other keys
MapInsertEvicting(map, key, value) == [k \in {key} |-> value]

\* MapInsert that stores the value under every key of the map
MapInsertClobbering(map, key, value) == [k \in DOMAIN map \cup {key} |-> value]

\* regexes.insert(key, value): a new entry, or the value of an existing one
MapInsert(map, key, value) ==
    [k \in DOMAIN map \cup {key} |-> IF k = key THEN value ELSE map[k]]

\* MethodDiffers that lets every method through
MethodDiffersNever(method, expected) == FALSE

\* the comparison, had a HEAD request been let through to GET entries
MethodDiffersHeadAsGet(method, expected) ==
    method # expected /\ ~(method = "HEAD" /\ expected = "GET")

\* $method != $expected_method
MethodDiffers(method, expected) == method # expected

\* ------------------------------------------------------------ route tables
U == Lit(<<"u">>)
T == Lit(<<"t">>)
PStr(n) == Param(n, "String")

\* the table of tests::test_real_life, with the two-parameter route of the
\* crate documentation
RealLife == <<
    Route("GET", <<>>, "home"),
    Route("GET", <<U>>, "list"),
    Route("POST", <<U>>, "create"),
    Route("PATCH", <<U, Param("id", "u32")>>, "update"),
    Route("DELETE", <<U, Param("id", "u32")>>, "delete"),
    Route("DELETE", <<U, Param("id", "u32"), T, Param("hash", "String")>>, "removeTx") >>

\* routes that overlap: the same shape with different parameter types
Overlap == <<
    Route("GET", <<U, Param("id", "u32")>>, "byId"),
    Route("GET", <<U, Param("n", "i32")>>, "byInt"),
    Route("GET", <<U, Lit(<<"x">>)>>, "literalX"),
    Route("GET", <<U, PStr("name")>>, "byName"),
    Route("GET", <<PStr("a"), PStr("b")>>, "any2"),
    Route("POST", <<U, PStr("name")>>, "postName") >>

\* the table of tests::test_verbs
Verbs == <<
    Route("GET", <<U>>, "get_test"),
    Route("POST", <<U>>, "post_test"),
    Route("PUT", <<U>>, "put_test"),
    Route("PATCH", <<U>>, "patch_test"),
    Route("DELETE", <<U>>, "delete_test"),
    Route("OPTIONS", <<U>>, "options_test"),
    Route("CONNECT", <<U>>, "connect_test"),
    Route("TRACE", <<U>>, "trace_test"),
    Route("HEAD", <<U>>, "head_test") >>

\* one route per parameter count, as tests::test_params_number, with
\* parameter types that differ from one position to the next
ParamsNumber == <<
    Route("GET", <<U>>, "zero"),
    Route("GET", <<U, Param("p1", "u32")>>, "one"),
    Route("GET", <<Param("p1", "u32"), Param("p2", "String"), Param("p3", "i32")>>, "three"),
    Route("GET", <<U, Param("p1", "i32"), T, PStr("p2"), Param("p3", "u32"),
                   Param("p4", "i32")>>, "four"),
    Route("GET", <<PStr("p1"), PStr("p2"), Param("p3", "u32"), PStr("p4"),
                   Param("p5", "i32")>>, "five"),
    Route("GET", <<PStr("p1"), PStr("p2"), PStr("p3"), PStr("p4"),
                   Param("p5", "i32"), Param("p6", "u32")>>, "six") >>

SevenA == <<
    Route("GET", <<PStr("p1"), PStr("p2"), PStr("p3"), PStr("p4"), PStr("p5"),
                   Param("p6", "u32"), PStr("p7")>>, "seven"),
    Route("GET", <<PStr("p1"), PStr("p2"), PStr("p3"), PStr("p4"), PStr("p5"),
                   PStr("p6"), PStr("p7")>>, "sevenStr") >>

SevenB == <<
    Route("GET", <<PStr("p1"), PStr("p2"), PStr("p3"), PStr("p4"), PStr("p5"),
                   PStr("p6"), Param("p7", "u32")>>, "seven") >>

\* the "default only" entry pattern
DefaultOnly == << >>

SevenC == <<
    Route("GET", <<PStr("p1"), PStr("p2"), PStr("p3"), PStr("p4"), PStr("p5"),
                   Param("p6", "u32"), PStr("p7")>>, "seven") >>

\* a segment that is one token tree but not an identifier
BracketLiteral == <<
    Route("GET", <<U>>, "list"),
    Route("GET", <<U, Lit(<<"[", "]">>)>>, "brackets") >>

EightParams == <<
    Route("GET", <<PStr("p1"), PStr("p2"), PStr("p3"), PStr("p4"), PStr("p5"),
                   PStr("p6"), PStr("p7"), PStr("p8")>>, "eight") >>

\* a home route that is not the first declaration
HomeLast == <<
    Route("GET", <<U>>, "list"),
    Route("GET", <<>>, "home") >>

\* router! invocations as written in a source file
Declared == {RealLife, Overlap, Verbs, ParamsNumber, SevenA, SevenB, SevenC,
             DefaultOnly, BracketLiteral, EightParams, HomeLast}

\* $p:ident
IsIdent(text) ==
    /\ Len(text) > 0
    /\ \A n \in 1..Len(text) : text[n] \in WordChars
    /\ text[1] \notin Digits
    /\ text # <<"_">>

\* the @call arms, had they been written with $p:tt
CallArmMatchesAnyTt(segs) == Len(ParamIdx(segs, 1)) <= MaxParams

\* some @call arm matches the segment list: identifiers around at most
\* seven {$id : $ty} groups
CallArmMatches(segs) ==
    /\ Len(ParamIdx(segs, 1)) <= MaxParams
    /\ \A n \in 1..Len(segs) : segs[n].kind = "lit" => IsIdent(segs[n].text)

\* some entry pattern matches the declarations: only the first route may have
\* no segment, and each method token has an @one_route arm
EntryPatternMatches(rs) ==
    \A n \in 1..Len(rs) :
        /\ Len(rs[n].segs) = 0 => n = 1
        /\ rs[n].method \in Methods

\* the invocation compiles
MacroExpands(rs) ==
    /\ EntryPatternMatches(rs)
    /\ \A n \in 1..Len(rs) : CallArmMatches(rs[n].segs)

\* the routers a program can hold
Tables == {rs \in Declared : MacroExpands(rs)}

\* small tables for the interleavings of several threads
Shared == <<
    Route("GET", <<>>, "home"),
    Route("POST", <<U>>, "create"),
    Route("GET", <<U, Param("id", "u32")>>, "byId"),
    Route("GET", <<U, PStr("name")>>, "byName") >>

ConcTables == {Shared}

\* a table of two routes for the runs under fair scheduling
Pair == <<
    Route("GET", <<U, Param("id", "u32")>>, "byId"),
    Route("GET", <<U>>, "list") >>

FairTables == {Pair}
FairPaths == {<<"/", "u", "/", "1", "2">>}

\* -------------------------------------------------------------- requests
MaxPathLen == 3
PathAlphabet == {"/", "u", "1", "-", "."}

ShortPaths == UNION {[1..n -> PathAlphabet] : n \in 0..MaxPathLen}

ValuesFor(ty) ==
    CASE ty = "u32" -> {<<"1", "2">>, <<"0", "1">>, <<"5", "d">>,
                        <<"4", "2", "9", "4", "9", "6", "7", "2", "9", "6">>}
      [] ty = "i32" -> {<<"-", "1">>, <<"-">>,
                        <<"2", "1", "4", "7", "4", "8", "3", "6", "4", "8">>}
      [] ty = "String" -> {<<"0", "x", "2">>}

SegValues(seg) == IF seg.kind = "param" THEN ValuesFor(seg.ty) ELSE {seg.text}

\* the paths of the shape of a template
RECURSIVE Instances(_, _)
Instances(segs, i) ==
    IF i > Len(segs) THEN {<< >>}
    ELSE {(<<"/">> \o v) \o rest : v \in SegValues(segs[i]), rest \in Instances(segs, i + 1)}

TablePaths(rs) == UNION {Instances(rs[i].segs, 1) : i \in 1..Len(rs)}

ConcPaths == {<<"/">>, <<"/", "u", "/", "1", "2">>, <<"/", "u", "/", "5", "d">>}
ConcMethods == {"GET"}

\* the (method, path) pairs the callers of a router pass: a wide set for the
\* tables checked with one caller, a few for the tables shared by threads
Requests(rs) ==
    IF rs \in ConcTables
    THEN ConcMethods \X ConcPaths
    ELSE IF rs \in FairTables
    THEN ConcMethods \X FairPaths
    ELSE Methods \X (ShortPaths \cup TablePaths(rs))

\* ------------------------------------------------------------------ state
Threads == 1..MaxThreads

VARIABLES
    routes,     \* the route declarations of the router! invocation, in order
    REGEXES,    \* the HashMap behind the global mutex
    mutex,      \* the thread holding the REGEXES lock, 0 when free
    pc,         \* per thread: position inside the closure
    req,        \* per thread: the method and path arguments
    idx,        \* per thread: the route whose block is being run
    result,     \* per thread: let mut result
    s,          \* per thread: the pattern string of the current route
    re,         \* per thread: the Regex the current route matches with
    attempted,  \* per thread: the routes whose closure ran in this call
    calls,      \* per thread: the handler invocations of this call
    lastMatch,  \* per thread: outcome of the latest re.captures
    remaining,  \* calls the threads may still make
    cold,       \* per thread: REGEXES was empty when the call started
    compiled,   \* pattern string -> number of Regex::new on it
    inserted,   \* pattern string -> number of regexes.insert on it
    requested,  \* pattern strings passed to __http_router_create_regex
    history     \* the finished calls

vars == <<routes, REGEXES, mutex, pc, req, idx, result, s, re, attempted,
          calls, lastMatch, remaining, cold, compiled, inserted, requested,
          history>>

NoReq == [method |-> "", path |-> <<>>]
NoLast == [entry |-> 0, matched |-> FALSE, caps |-> <<>>]

InitCommon ==
    /\ REGEXES = EmptyMap
    /\ mutex = 0
    /\ pc = [t \in Threads |-> "idle"]
    /\ req = [t \in Threads |-> NoReq]
    /\ idx = [t \in Threads |-> 0]
    /\ result = [t \in Threads |-> None]
    /\ s = [t \in Threads |-> <<>>]
    /\ re = [t \in Threads |-> <<>>]
    /\ attempted = [t \in Threads |-> <<>>]
    /\ calls = [t \in Threads |-> <<>>]
    /\ lastMatch = [t \in Threads |-> NoLast]
    /\ cold = [t \in Threads |-> TRUE]
    /\ compiled = EmptyMap
    /\ inserted = EmptyMap
    /\ requested = {}
    /\ history = {}

\* one call, every table and a wide set of requests
Init ==
    /\ InitCommon
    /\ routes \in Tables
    /\ remaining = 1

\* the threads share MaxCalls calls of one router
InitConc ==
    /\ InitCommon
    /\ routes \in ConcTables
    /\ remaining = MaxCalls

Range(f) == {f[x] : x \in DOMAIN f}

\* the threads share MaxCalls calls of a two-route router
InitFair ==
    /\ InitCommon
    /\ routes \in FairTables
    /\ remaining = MaxCalls

Count(map, key) == IF key \in DOMAIN map THEN map[key] ELSE 0
Bump(map, key) ==
    [k \in DOMAIN map \cup {key} |-> IF k = key THEN Count(map, key) + 1 ELSE map[k]]

\* ---------------------------------------------------------------- actions
\* router(context, method, path): the closure starts with result = None
Call(t) ==
    /\ pc[t] = "idle"
    /\ remaining > 0
    /\ \E r \in Requests(routes) :
          req' = [req EXCEPT ![t] = [method |-> r[1], path |-> r[2]]]
    /\ remaining' = remaining - 1
    /\ idx' = [idx EXCEPT ![t] = 1]
    /\ result' = [result EXCEPT ![t] = None]
    /\ attempted' = [attempted EXCEPT ![t] = <<>>]
    /\ calls' = [calls EXCEPT ![t] = <<>>]
    /\ lastMatch' = [lastMatch EXCEPT ![t] = NoLast]
    /\ cold' = [cold EXCEPT ![t] = (DOMAIN REGEXES = {})]
    /\ pc' = [pc EXCEPT ![t] = "route"]
    /\ UNCHANGED <<routes, REGEXES, mutex, s, re, compiled, inserted,
                   requested, history>>

\* a route block whose closure runs: if result.is_none() { closure() }, up to
\* the method test and the construction of the pattern string
RouteBlock(t) ==
    /\ pc[t] = "route"
    /\ idx[t] <= Len(routes)
    /\ result[t] = None
    /\ attempted' = [attempted EXCEPT ![t] = Append(@, idx[t])]
    /\ IF MethodDiffers(req[t].method, routes[idx[t]].method)
       THEN /\ idx' = [idx EXCEPT ![t] = @ + 1]
            /\ UNCHANGED <<pc, s, requested>>
       ELSE /\ s' = [s EXCEPT ![t] = BuildPattern(routes[idx[t]].segs)]
            /\ requested' = requested \cup {s'[t]}
            /\ pc' = [pc EXCEPT ![t] = "lock_get"]
            /\ UNCHANGED idx
    /\ UNCHANGED <<routes, REGEXES, mutex, req, result, re, calls,
                   lastMatch, remaining, cold, compiled, inserted, history>>

\* a route block after a match: result.is_none() is false, the block is skipped
SkipBlock(t) ==
    /\ pc[t] = "route"
    /\ idx[t] <= Len(routes)
    /\ result[t] # None
    /\ idx' = [idx EXCEPT ![t] = @ + 1]
    /\ UNCHANGED <<routes, REGEXES, mutex, pc, req, result, s, re,
                   attempted, calls, lastMatch, remaining, cold, compiled, inserted,
                   requested, history>>

\* REGEXES.lock() of the lookup block
LockGet(t) ==
    /\ pc[t] = "lock_get"
    /\ mutex = 0
    /\ mutex' = t
    /\ pc' = [pc EXCEPT ![t] = "get"]
    /\ UNCHANGED <<routes, REGEXES, req, idx, result, s, re, attempted,
                   calls, lastMatch, remaining, cold, compiled, inserted, requested,
                   history>>

\* the lookup block, had its guard lived on to the end of the function when
\* the string is not found
GuardAfterLookupHeld(t, found) == IF found THEN 0 ELSE t

\* the holder of the lock after the lookup block: `regexes` goes out of scope
\* at the closing brace, found or not
GuardAfterLookup(t, found) == 0

\* _result = regexes.get(s).cloned(); the guard is dropped at the end of the
\* block; a hit is returned by unwrap_or_else
Get(t) ==
    /\ pc[t] = "get"
    /\ mutex = t
    /\ mutex' = GuardAfterLookup(t, MapGet(REGEXES, s[t]).some)
    /\ LET _result == MapGet(REGEXES, s[t])
       IN  IF _result.some
           THEN /\ re' = [re EXCEPT ![t] = _result.value]
                /\ pc' = [pc EXCEPT ![t] = "captures"]
           ELSE /\ pc' = [pc EXCEPT ![t] = "compile"]
                /\ UNCHANGED re
    /\ UNCHANGED <<routes, REGEXES, req, idx, result, s, attempted,
                   calls, lastMatch, remaining, cold, compiled, inserted, requested,
                   history>>

\* let re = regex::Regex::new(s).unwrap(): an Err panics, outside both lock
\* sections, and the call never returns
Compile(t) ==
    /\ pc[t] = "compile"
    /\ IF RegexNew(s[t]) = RegexError
       THEN /\ pc' = [pc EXCEPT ![t] = "panicked"]
            /\ UNCHANGED <<re, compiled>>
       ELSE /\ re' = [re EXCEPT ![t] = RegexNew(s[t])]
            /\ compiled' = Bump(compiled, s[t])
            /\ pc' = [pc EXCEPT ![t] = "lock_insert"]
    /\ UNCHANGED <<routes, REGEXES, mutex, req, idx, result, s,
                   attempted, calls, lastMatch, remaining, cold, inserted, requested,
                   history>>

\* REGEXES.lock() inside the unwrap_or_else closure
LockInsert(t) ==
    /\ pc[t] = "lock_insert"
    /\ mutex = 0
    /\ mutex' = t
    /\ pc' = [pc EXCEPT ![t] = "insert"]
    /\ UNCHANGED <<routes, REGEXES, req, idx, result, s, re, attempted,
                   calls, lastMatch, remaining, cold, compiled, inserted, requested,
                   history>>

\* regexes.insert(s.to_string(), re.clone()); the guard is dropped on return
Insert(t) ==
    /\ pc[t] = "insert"
    /\ mutex = t
    /\ REGEXES' = MapInsert(REGEXES, s[t], re[t])
    /\ inserted' = Bump(inserted, s[t])
    /\ mutex' = 0
    /\ pc' = [pc EXCEPT ![t] = "captures"]
    /\ UNCHANGED <<routes, req, idx, result, s, re, attempted, calls,
                   lastMatch, remaining, cold, compiled, requested, history>>

\* if let Some(captures) = re.captures($path) { Some(router!(@call ...)) }
\* else { None }; result = closure()
Match(t) ==
    /\ pc[t] = "captures"
    /\ LET route == routes[idx[t]]
           m == Captures(re[t], req[t].path)
           out == IF m.ok
                  THEN CallPure(idx[t], route.handler, m.caps, CallSlots(route.segs))
                  ELSE None
       IN  /\ lastMatch' = [lastMatch EXCEPT ![t] =
                               [entry |-> idx[t], matched |-> m.ok, caps |-> m.caps]]
           /\ result' = [result EXCEPT ![t] = out]
           /\ calls' = [calls EXCEPT ![t] = IF out.some THEN Append(@, out) ELSE @]
    /\ idx' = [idx EXCEPT ![t] = @ + 1]
    /\ pc' = [pc EXCEPT ![t] = "route"]
    /\ UNCHANGED <<routes, REGEXES, mutex, req, s, re, attempted,
                   remaining, cold, compiled, inserted, requested, history>>

Fallback == Some(0, "default", <<>>)

\* result.unwrap_or_else(|| $default(&context)) and the return of the closure
Return(t) ==
    /\ pc[t] = "route"
    /\ idx[t] > Len(routes)
    /\ LET out == IF result[t].some THEN result[t] ELSE Fallback
           invoked == IF result[t].some THEN calls[t] ELSE Append(calls[t], Fallback)
       IN  /\ calls' = [calls EXCEPT ![t] = invoked]
           /\ result' = [result EXCEPT ![t] = out]
           /\ history' = history \cup
                 {[method |-> req[t].method, path |-> req[t].path,
                   selected |-> out.entry, attempted |-> attempted[t],
                   invoked |-> invoked]}
    /\ pc' = [pc EXCEPT ![t] = "idle"]
    /\ UNCHANGED <<routes, REGEXES, mutex, req, idx, s, re, attempted,
                   lastMatch, remaining, cold, compiled, inserted, requested>>

Next ==
    \E t \in Threads :
        \/ Call(t)
        \/ RouteBlock(t)
        \/ SkipBlock(t)
        \/ LockGet(t)
        \/ Get(t)
        \/ Compile(t)
        \/ LockInsert(t)
        \/ Insert(t)
        \/ Match(t)
        \/ Return(t)

Spec == Init /\ [][Next]_vars

SpecConc == InitConc /\ [][Next]_vars

\* the steps of a call that need no lock
Run(t) ==
    \/ RouteBlock(t)
    \/ SkipBlock(t)
    \/ Get(t)
    \/ Compile(t)
    \/ Insert(t)
    \/ Match(t)
    \/ Return(t)

\* fair scheduling: a thread that can run does run, and a thread that finds
\* the lock free again and again does get it; nothing makes a caller call
SpecFair ==
    /\ InitFair
    /\ [][Next]_vars
    /\ \A t \in Threads :
          WF_vars(Run(t)) /\ SF_vars(LockGet(t)) /\ SF_vars(LockInsert(t))

\* ================================================================ claims
\* What the specification says a template matches, stated on the pieces of
\* the path between its slashes.
RECURSIVE Pieces(_, _, _)
Pieces(path, j, cur) ==
    IF j > Len(path) THEN <<cur>>
    ELSE IF path[j] = "/" THEN <<cur>> \o Pieces(path, j + 1, <<>>)
    ELSE Pieces(path, j + 1, Append(cur, path[j]))

\* the pieces that follow each slash of a path that starts with a slash
PathPieces(path) == Pieces(path, 2, <<>>)

WordOrHyphenRun(piece) ==
    /\ Len(piece) > 0
    /\ \A i \in 1..Len(piece) : piece[i] \in WordChars \cup {"-"}

ShapeMatches(segs, path) ==
    IF Len(segs) = 0 THEN path = <<"/">>
    ELSE /\ Len(path) > 0
         /\ path[1] = "/"
         /\ Len(PathPieces(path)) = Len(segs)
         /\ \A i \in 1..Len(segs) :
               IF segs[i].kind = "lit"
               THEN PathPieces(path)[i] = segs[i].text
               ELSE WordOrHyphenRun(PathPieces(path)[i])

\* the captured substrings of a path of the template's shape, left to right
ParamPieces(segs, path) ==
    LET ps == ParamIdx(segs, 1)
    IN  [n \in 1..Len(ps) |-> PathPieces(path)[ps[n]]]

\* the i-th captured substring parsed into the declared type of the i-th
\* placeholder
ExpectedArgs(segs, path) ==
    LET tys == DeclaredTypes(segs)
        pieces == ParamPieces(segs, path)
    IN  [n \in 1..Len(tys) |-> StrParse(pieces[n], tys[n])]

AllParse(segs, path) ==
    \A n \in 1..Len(DeclaredTypes(segs)) : ExpectedArgs(segs, path)[n].ok

FullyMatches(i, method, path) ==
    /\ routes[i].method = method
    /\ ShapeMatches(routes[i].segs, path)
    /\ AllParse(routes[i].segs, path)

FullMatchSet(method, path) ==
    {i \in 1..Len(routes) : FullyMatches(i, method, path)}

InvokedEntries(h) == {h.invoked[n].entry : n \in 1..Len(h.invoked)}

\* C1: a request that reaches a route of its verb whose shape it has, with
\* every captured substring parseable into its placeholder's declared type,
\* invokes that route's handler with exactly the k values obtained by parsing
\* the i-th capture into the i-th declared type, and no other handler.
C1_TypedParams ==
    \A h \in history : \A i \in 1..Len(routes) :
        (/\ FullyMatches(i, h.method, h.path)
         /\ \A j \in 1..(i - 1) : ~FullyMatches(j, h.method, h.path))
        => h.invoked = <<Some(i, routes[i].handler,
                              ExpectedArgs(routes[i].segs, h.path))>>

\* C2: entries are tried in declaration order, and when two or more entries
\* fully match a request, the earliest one is invoked and no later one.
C2_FirstMatchWins ==
    \A h \in history :
        /\ h.attempted = [n \in 1..Len(h.attempted) |-> n]
        /\ Cardinality(FullMatchSet(h.method, h.path)) >= 2
           => InvokedEntries(h) =
                 {CHOOSE i \in FullMatchSet(h.method, h.path) :
                     \A j \in FullMatchSet(h.method, h.path) : i <= j}

\* an entry of the request's verb and shape one of whose captures does not
\* parse into its declared type
Demoted(i, method, path) ==
    /\ routes[i].method = method
    /\ ShapeMatches(routes[i].segs, path)
    /\ ~AllParse(routes[i].segs, path)

\* C3: an entry whose verb and pattern match but one of whose captures fails
\* to parse into its declared type is not invoked, and dispatch goes on with
\* the next entry, ending at the fallback when none fully matches.
C3_ParseFailureDemotes ==
    \A h \in history : \A i \in 1..Len(routes) :
        (Demoted(i, h.method, h.path) /\ i \in Range(h.attempted))
        => /\ i \notin InvokedEntries(h)
           /\ i < Len(routes) => (i + 1) \in Range(h.attempted)
           /\ FullMatchSet(h.method, h.path) = {} => h.selected = 0

\* C4: a call invokes exactly one handler: that of a fully matching entry,
\* or the fallback, once, exactly when no entry fully matches.
C4_ExactlyOneHandler ==
    \A h \in history :
        /\ Len(h.invoked) = 1
        /\ h.invoked[1].entry = h.selected
        /\ h.selected # 0 => FullyMatches(h.selected, h.method, h.path)
        /\ h.selected = 0 <=> FullMatchSet(h.method, h.path) = {}

\* C5: the handler of an entry is invoked only by requests of the entry's
\* declared verb, for each of the nine verbs.
C5_VerbSensitivity ==
    /\ \A t \in Threads : \A n \in 1..Len(calls[t]) :
          calls[t][n].entry # 0 => routes[calls[t][n].entry].method = req[t].method
    /\ \A h \in history : \A e \in InvokedEntries(h) :
          e # 0 => routes[e].method = h.method

\* a HEAD request went past eight entries of the same template and other
\* verbs and reached the ninth
C5_Witness ==
    /\ routes = Verbs
    /\ \E h \in history :
          h.method = "HEAD" /\ h.selected = 9 /\ Len(h.attempted) = 9

\* C6: the compiled pattern of a route matches a path exactly when the whole
\* path is, per template segment, one slash followed by the literal text or
\* by a non-empty run of word-or-hyphen characters; a route without segments
\* matches the path "/" only; the captures are the runs, left to right.
C6_PatternShape ==
    \A t \in Threads :
        lastMatch[t].entry # 0 =>
            LET segs == routes[lastMatch[t].entry].segs
            IN  /\ lastMatch[t].matched <=> ShapeMatches(segs, req[t].path)
                /\ lastMatch[t].matched
                   => lastMatch[t].caps = ParamPieces(segs, req[t].path)

\* the route /u was tried on a path with a trailing character and rejected it
C6_Witness ==
    \E t \in Threads :
        /\ lastMatch[t].entry # 0
        /\ routes[lastMatch[t].entry].segs = <<U>>
        /\ req[t].path = <<"/", "u", "u">>
        /\ ~lastMatch[t].matched

InCreateRegex(t) == pc[t] \in {"lock_get", "get", "compile", "lock_insert", "insert"}
AllReturned == \A t \in Threads : ~InCreateRegex(t)

\* C7: every call of __http_router_create_regex returns the pattern compiled
\* from its own string, and once all calls have returned every requested
\* string is in the cache, mapped to the pattern compiled from it.
C7_CacheSafe ==
    /\ \A t \in Threads : pc[t] = "captures" => re[t] = RegexNew(s[t])
    /\ AllReturned =>
          \A str \in requested :
              str \in DOMAIN REGEXES /\ REGEXES[str] = RegexNew(str)

\* all calls have returned after two threads raced on one string and
\* several different strings were requested
C7_Witness ==
    /\ AllReturned
    /\ Cardinality(requested) >= 2
    /\ \E str \in requested : Count(inserted, str) >= 2

\* C8: each distinct template string is compiled at most once and inserted
\* into the cache at most once, also under concurrent calls.
C8_CompiledOnce ==
    \A str \in requested : Count(compiled, str) <= 1 /\ Count(inserted, str) <= 1

\* C9: a string present in the cache stays present in every later state,
\* mapped to the same compiled pattern.
C9_AppendOnly ==
    [][\A k \in DOMAIN REGEXES : k \in DOMAIN REGEXES' /\ REGEXES'[k] = REGEXES[k]]_vars

\* an insert landed on a key that was already present, in a cache holding
\* other keys
C9_Witness ==
    /\ Cardinality(DOMAIN REGEXES) >= 2
    /\ \E str \in DOMAIN REGEXES : Count(inserted, str) >= 2
    /\ \E t \in Threads : pc[t] = "captures" /\ Count(inserted, s[t]) >= 2

\* C10: for one route table, two calls with the same method and path select
\* the same entry (or the fallback), attempt the same entries in the same
\* order and make the same invocation, whatever the cache held when each of
\* them started and whatever ran beside them.
C10_Deterministic ==
    \A h1, h2 \in history :
        (h1.method = h2.method /\ h1.path = h2.path)
        => /\ h1.selected = h2.selected
           /\ h1.attempted = h2.attempted
           /\ h1.invoked = h2.invoked

\* the same request was served once from an empty cache and once from a
\* filled one, by a route reached after an earlier one was demoted
C10_Witness ==
    \E t1, t2 \in Threads :
        /\ pc[t1] = "idle" /\ pc[t2] = "idle"
        /\ req[t1] # NoReq /\ req[t1] = req[t2]
        /\ cold[t1] /\ ~cold[t2]
        /\ result[t1].entry > 1 /\ result[t2] = result[t1]

\* C11: no call fails because a pattern failed to compile: every pattern of
\* a router that the macro expanded is accepted by Regex::new, so the unwrap
\* in the request path never panics and every call works with a compiled
\* pattern; a template Regex::new would reject is refused when the program
\* is built.
C11_NoCompileFailure ==
    /\ \A t \in Threads : pc[t] # "panicked"
    /\ \A t \in Threads : pc[t] = "compile" => RegexNew(s[t]) # RegexError
    /\ \A t \in Threads : pc[t] \in {"lock_insert", "insert", "captures"}
                              => re[t] # RegexError

\* the pattern of a route with six placeholders was compiled during a call
C11_Witness ==
    \E t \in Threads :
        /\ pc[t] = "lock_insert"
        /\ Len(ParamIdx(routes[idx[t]].segs, 1)) = 6
        /\ re[t] = RegexNew(s[t])
        /\ Count(compiled, s[t]) = 1

\* C12: the lock is held only inside the lookup and the insert sections,
\* never while a pattern is compiled or a handler runs; under fair scheduling
\* a held lock is eventually released and every call of
\* __http_router_create_regex, hit or miss, eventually returns, with the
\* whole pattern compiled from its string. The callers make finitely many
\* calls, so this is: from some point on the lock is free and no thread is
\* inside __http_router_create_regex.
C12_NeverBlocksForever ==
    /\ [](\A t \in Threads : mutex = t => pc[t] \in {"get", "insert"})
    /\ [](\A t \in Threads : pc[t] = "captures" => re[t] = RegexNew(s[t]))
    /\ <>[](mutex = 0 /\ AllReturned)

\* a thread waits for the lock while another one is inserting
C12_Witness ==
    \E t1, t2 \in Threads :
        /\ t1 # t2
        /\ mutex = t1 /\ pc[t1] = "insert"
        /\ pc[t2] \in {"lock_get", "lock_insert"}

\* the threads inside the work on an entry's pattern: lookup, compilation,
\* insertion, evaluation
InPatternWork(t) ==
    pc[t] \in {"lock_get", "get", "compile", "lock_insert", "insert", "captures"}

\* the entries a call has evaluated so far whose verb is the requested one;
\* an entry is evaluated only while no earlier entry has produced a result
SameVerbAttempted(t) ==
    {attempted[t][n] : n \in {m \in 1..Len(attempted[t]) :
                                routes[attempted[t][m]].method = req[t].method}}

====
